---- MODULE Spec2Model ----
(***************************************************************************)
(* Model of the screen-mirroring session manager of ui-inspector:          *)
(* the ScreenCanvas component (frontend/src/components/XPathPlayground.tsx *)
(* lines 327-1293) driven by App (unnamed/part_004).                       *)
(*                                                                         *)
(* The browser runs one event at a time, so every handler is one action.   *)
(* App.handleDeviceChange runs inside a discrete input event; React 18     *)
(* (createRoot, main.tsx:15) then renders and flushes the effects before   *)
(* any other event is handled.  The state between the handler and the      *)
(* effect flush is kept visible (selectedDevice # deviceSerial) but no     *)
(* other action is enabled in it.                                          *)
(*                                                                         *)
(* WebSocket objects are heap objects without a meaningful address: they   *)
(* are kept as a bag of records.  The reference wsRef.current is the cur   *)
(* field of the record it points to (at most one record has cur = TRUE;    *)
(* none means null).  An object that has delivered its close event and is  *)
(* referenced neither by wsRef nor by a listener can do nothing more and   *)
(* is dropped.                                                             *)
(***************************************************************************)
EXTENDS Integers, FiniteSets, Sequences, Bags, TLC

\* Bounds of the model: WebSocket objects alive at once, timers pending at
\* once.
MaxSockets == 2
MaxTimers == 1

\* The device list returned by the backend, its serials, and null.
Devices == <<"A", "B">>
Serials == {Devices[k] : k \in DOMAIN Devices}
None == "none"

\* null where the value is an object.
Null == [null |-> TRUE]

\* DeviceInfo values (screen size in device units).  Info is the DeviceInfo of
\* the devices of the list; the session code only tests it against null.
DeviceInfos ==
    {[width |-> 0, height |-> 0], [width |-> 40, height |-> 80],
     [width |-> 96, height |-> 192], [width |-> 375, height |-> 812],
     [width |-> 1080, height |-> 2400]}
Info == [width |-> 40, height |-> 80]

VARIABLES
    selectedDevice,   \* App state selectedDevice
    deviceSerial,     \* ScreenCanvas prop deviceSerial of the committed render
    currentSerialRef, \* session identity token
    isConnected,      \* connected indicator
    loading,          \* loading flag
    imageUrlRef,      \* the installed frame URL
    liveUrls,         \* ids of object URLs created and not yet revoked
    images,           \* the URLs of the Image objects whose onload is set
                      \* and has not run
    imageRef,         \* the URL of the image in imageRef, NoUrl for none
    sockets,          \* bag of WebSocket objects; wsRef is their cur field
    timers,           \* bag of pending setTimeout callbacks
    deviceInfo,       \* Null or a DeviceInfo
    scale,            \* canvas pixels per device unit, a rational
    hierarchy,        \* Null or the loaded hierarchy tree
    frameSize,        \* size of the last decoded frame, with the serial of
                      \* the session that delivered it (history)
    hierarchyFit,     \* [x, y] correction factors, rationals
    viewport,         \* container clientWidth and window innerHeight
    elementBounds,    \* the overlays extracted from the hierarchy
    tapMode,          \* interactive mode
    tapStartRef,      \* Null or the gesture captured at pointer-down
    swipeArrow,       \* Null or the swipe preview
    requests,         \* bag of tap/swipe/lookup requests in flight
    fetches,          \* the other requests in flight, see Fetch
    hierarchyOf,      \* the serial the loaded hierarchy was requested for
                      \* (history)
    overlays,         \* App state overlays
    selectedElement,  \* App state selectedElement
    appHierarchy,     \* App state hierarchy
    warning           \* the last message.warning of the XPath playground

\* The requests in flight and the state of App that their responses set.
appVars == <<fetches, hierarchyOf, overlays, selectedElement, appHierarchy,
             warning>>

\* The state of the canvas view.
canvasVars == <<deviceInfo, scale, hierarchy, frameSize, imageRef,
                hierarchyFit, viewport, elementBounds,
                tapMode, tapStartRef, swipeArrow, requests, appVars>>

vars == <<selectedDevice, deviceSerial, currentSerialRef, isConnected,
          loading, imageUrlRef, liveUrls, images, sockets, timers, canvasVars>>

\* The part of the state the session code reads and writes, as one record.
St ==
    [currentSerialRef |-> currentSerialRef,
     isConnected |-> isConnected, loading |-> loading,
     imageUrlRef |-> imageUrlRef, liveUrls |-> liveUrls,
     sockets |-> sockets, timers |-> timers]

\* imageUrlRef values.  kind "blob" is an object URL made from a stream
\* frame, kind "http" the screenshot endpoint URL; serial and stale say which
\* transport the frame came from.
NoUrl == [kind |-> "none", id |-> 0, serial |-> None, stale |-> FALSE]

FreshUrlId(live) ==
    CHOOSE n \in 1..(Cardinality(live) + 1) :
        n \notin live /\ \A m \in 1..(n - 1) : m \in live

\* URL.revokeObjectURL: releases an object URL, nothing to do for another URL.
RevokeObjectURL(live, url) ==
    IF url.kind = "blob" THEN live \ {url.id} ELSE live

\* A request in flight that is neither tap, swipe nor lookup: kind "info" is
\* getDeviceInfo, "hierarchy" dumpHierarchy, "stop" stopStream and "xpath"
\* queryXPath.  fetches is a set: a request is kept once while requests of
\* its kind for its serial are in flight.
Fetch(kind, serial) == [kind |-> kind, serial |-> serial]

Put(B, e) == B (+) SetToBag({e})
Take(B, e) == B (-) SetToBag({e})
Swap(B, e, f) == Put(Take(B, e), f)
CountIn(B, e) == IF e \in DOMAIN B THEN B[e] ELSE 0

(***************************************************************************)
(* WebSocket objects.  state is the readyState, with CLOSING split in two: *)
(* "closing" after close() on an OPEN socket (the close event may be clean *)
(* or not), "aborting" after close() on a CONNECTING socket (the browser   *)
(* fails the connection, the close event is never clean).                  *)
(* cur = wsRef.current is this object; listen = the serial the onPrevClose *)
(* listener added to this object will open, None without listener.         *)
(* History field: stale = the session token was invalidated or replaced    *)
(* while this object existed (or did not match when it was created).       *)
(***************************************************************************)
SocketRecs ==
    [serial : Serials, kind : {"effect", "manual"},
     state : {"connecting", "open", "closing", "aborting", "closed"},
     stale : BOOLEAN, cur : BOOLEAN, listen : Serials \cup {None}]

\* new WebSocket(wsUrl); wsRef.current = ws
NewSocket(serial, kind, stale) ==
    [serial |-> serial, kind |-> kind, state |-> "connecting",
     stale |-> stale, cur |-> TRUE, listen |-> None]

\* ws.close(): CONNECTING -> fails the connection, OPEN -> close handshake,
\* CLOSING and CLOSED -> nothing.
CloseCall(sock) ==
    CASE sock.state = "connecting" -> [sock EXCEPT !.state = "aborting"]
      [] sock.state = "open" -> [sock EXCEPT !.state = "closing"]
      [] OTHER -> sock

\* wsRef.current !== null, and the object it points to.
HasWs(s) == \E r \in DOMAIN s.sockets : r.cur
Ws(s) == CHOOSE r \in DOMAIN s.sockets : r.cur

\* wsRef.current = null
ClearWs(s) ==
    IF HasWs(s)
    THEN [s EXCEPT !.sockets = Swap(@, Ws(s), [Ws(s) EXCEPT !.cur = FALSE])]
    ELSE s

CanCreate(s) == BagCardinality(s.sockets) < MaxSockets

\* Pending timers: [kind, serial, hasInfo, stale, fd].  kind "backoff" is the
\* 2s reconnect timer of ws.onclose, kind "manual" the 100ms timer of
\* handleReconnect (hasInfo: its closure saw a DeviceInfo).  History fields:
\* stale = the token was invalidated or replaced since the timer was set,
\* fd = forceDisconnect ran while the timer was pending.
Timers ==
    [kind : {"backoff", "manual"}, serial : Serials, hasInfo : BOOLEAN,
     stale : BOOLEAN, fd : BOOLEAN]

Timer(kind, serial, hasInfo) ==
    [kind |-> kind, serial |-> serial, hasInfo |-> hasInfo,
     stale |-> FALSE, fd |-> FALSE]

\* The bag B with field stale of every element set to TRUE.
MarkStale(B) ==
    LET D == {[t EXCEPT !.stale = TRUE] : t \in DOMAIN B}
    IN  [u \in D |-> CountIn(B, u) + CountIn(B, [u EXCEPT !.stale = FALSE])]

\* The bag B of timers with field stale of every backoff timer set to TRUE
\* (the history of a manual timer is not recorded: nothing reads it).
MarkStaleTimers(B) ==
    LET F(t) == IF t.kind = "backoff" THEN [t EXCEPT !.stale = TRUE] ELSE t
        D == {F(t) : t \in DOMAIN B}
    IN  [u \in D |-> IF u.kind = "backoff"
                     THEN CountIn(B, u) + CountIn(B, [u EXCEPT !.stale = FALSE])
                     ELSE B[u]]

\* The bag B of timers with field fd of every backoff timer set to TRUE.
MarkFd(B) ==
    LET F(t) == IF t.kind = "backoff" THEN [t EXCEPT !.fd = TRUE] ELSE t
        D == {F(t) : t \in DOMAIN B}
    IN  [u \in D |-> IF u.kind = "backoff"
                     THEN CountIn(B, u) + CountIn(B, [u EXCEPT !.fd = FALSE])
                     ELSE B[u]]

\* currentSerialRef.current = null, with the history bookkeeping: every
\* socket object and pending backoff timer has now seen its token invalidated.
Invalidate(s) ==
    [s EXCEPT !.currentSerialRef = None,
              !.sockets = MarkStale(s.sockets),
              !.timers = MarkStaleTimers(s.timers)]

\* A closed socket object that nothing references is garbage.
Collect(s) ==
    LET keep == {r \in DOMAIN s.sockets :
                    r.state # "closed" \/ r.cur \/ r.listen # None}
    IN  [s EXCEPT !.sockets = [r \in keep |-> s.sockets[r]]]

\* The image load effect without its cleanup: the Image of the URL before
\* keeps its onload.
LoadImageNoCleanup(imgs, old, new) ==
    IF new = old THEN imgs
    ELSE IF new = NoUrl THEN imgs ELSE imgs \cup {new}

\* The image load effect, which runs when imageUrl has changed from old to
\* new: the cleanup of the run before sets img.onload = null, and a URL
\* other than null gets a new Image with an onload.
LoadImage(imgs, old, new) ==
    IF new = old THEN imgs
    ELSE IF new = NoUrl THEN {} ELSE {new}

SetSt(s0) ==
    LET s == Collect(s0) IN
    /\ currentSerialRef' = s.currentSerialRef
    /\ isConnected' = s.isConnected
    /\ loading' = s.loading
    /\ imageUrlRef' = s.imageUrlRef
    /\ liveUrls' = s.liveUrls
    /\ images' = LoadImage(images, imageUrlRef, s.imageUrlRef)
    /\ sockets' = s.sockets
    /\ timers' = s.timers

(***************************************************************************)
(* The session code of ScreenCanvas, as functions on the state record.     *)
(***************************************************************************)

\* cleanupImageUrl
CleanupImageUrl(s) ==
    IF s.imageUrlRef # NoUrl
    THEN [s EXCEPT !.liveUrls = RevokeObjectURL(s.liveUrls, s.imageUrlRef),
                   !.imageUrlRef = NoUrl]
    ELSE s

\* forceDisconnect with the token invalidated in the wrong branch.
ForceDisconnectElse(s) ==
    LET s1 == IF HasWs(s)
              THEN [s EXCEPT !.sockets = Swap(@, Ws(s),
                                 [CloseCall(Ws(s)) EXCEPT !.cur = FALSE])]
              ELSE Invalidate(s)
        s2 == [s1 EXCEPT !.isConnected = FALSE, !.timers = MarkFd(s1.timers)]
    IN  CleanupImageUrl(s2)

\* forceDisconnect.  Every timer pending at the call is marked fd.
ForceDisconnect(s) ==
    LET s1 == IF HasWs(s)
              THEN LET t == Invalidate(s) IN
                   [t EXCEPT !.sockets = Swap(@, Ws(t),
                                 [CloseCall(Ws(t)) EXCEPT !.cur = FALSE])]
              ELSE s
        s2 == [s1 EXCEPT !.isConnected = FALSE, !.timers = MarkFd(s1.timers)]
    IN  CleanupImageUrl(s2)

\* closeWebSocket
CloseWebSocket(s) ==
    LET s1 == IF HasWs(s)
              THEN [s EXCEPT !.sockets = Swap(@, Ws(s),
                                 [CloseCall(Ws(s)) EXCEPT !.cur = FALSE])]
              ELSE s
    IN  [s1 EXCEPT !.isConnected = FALSE]

\* openNewWs of the effect run for deviceSerial = d
OpenNewWs(s, d) ==
    IF s.currentSerialRef # d
    THEN s
    ELSE LET c == ClearWs(s) IN
         [c EXCEPT !.loading = TRUE,
                   !.sockets = Put(@, NewSocket(d, "effect", FALSE))]

\* Whether OpenNewWs(s, d) constructs a WebSocket.
Opens(s, d) == s.currentSerialRef = d

\* The cleanup returned by the streaming effect.
EffectCleanup(s) ==
    LET s1 == Invalidate(s)
        s2 == IF HasWs(s1)
              THEN [s1 EXCEPT !.sockets = Swap(@, Ws(s1),
                                  [CloseCall(Ws(s1)) EXCEPT !.cur = FALSE])]
              ELSE s1
    IN  CleanupImageUrl(s2)

\* The effect body that never opens the transport itself (it leaves the
\* opening to a close event).
EffectBodyWait(s, d) ==
    [ClearWs(s) EXCEPT !.currentSerialRef = d, !.isConnected = FALSE]

\* The body of the streaming effect for a non-null deviceSerial d.
EffectBody(s, d) ==
    LET s1 == [ClearWs(s) EXCEPT !.currentSerialRef = d, !.isConnected = FALSE]
    IN  IF HasWs(s) /\ Ws(s).state # "closed"
        THEN LET s2 == CleanupImageUrl(s1)
                 prevWs == [Ws(s) EXCEPT !.cur = FALSE]
             IN  [s2 EXCEPT !.sockets = Swap(@, prevWs,
                                [CloseCall(prevWs) EXCEPT !.listen = d])]
        ELSE OpenNewWs(s1, d)

\* ws.onopen of socket r, whose readyState has become OPEN
OnOpen(s, r) ==
    LET o == [r EXCEPT !.state = "open"] IN
    IF r.kind = "effect" /\ s.currentSerialRef # r.serial
    THEN [s EXCEPT !.sockets = Swap(@, r, CloseCall(o))]
    ELSE [s EXCEPT !.sockets = Swap(@, r, o),
                   !.loading = FALSE, !.isConnected = TRUE]

\* ws.onmessage that does not revoke the previous object URL.
OnMessageLeak(s, r) ==
    IF s.currentSerialRef # r.serial
    THEN s
    ELSE LET url == [kind |-> "blob", id |-> FreshUrlId(s.liveUrls),
                     serial |-> r.serial, stale |-> r.stale]
         IN  [s EXCEPT !.liveUrls = s.liveUrls \cup {url.id},
                       !.imageUrlRef = url]

\* ws.onmessage of socket r: one message = one frame
OnMessage(s, r) ==
    IF s.currentSerialRef # r.serial
    THEN s
    ELSE LET url == [kind |-> "blob", id |-> FreshUrlId(s.liveUrls),
                     serial |-> r.serial, stale |-> r.stale]
             live == s.liveUrls \cup {url.id}
         IN  [s EXCEPT !.liveUrls = IF s.imageUrlRef # NoUrl
                                    THEN RevokeObjectURL(live, s.imageUrlRef)
                                    ELSE live,
                       !.imageUrlRef = url]

\* ws.onerror of socket r
OnError(s, r) == [s EXCEPT !.isConnected = FALSE]

\* Whether ws.onclose of socket r schedules the 2s timer.
Schedules(s, r, wasClean) ==
    /\ r.kind = "effect"
    /\ s.currentSerialRef = r.serial
    /\ ~wasClean

\* ws.onclose of socket r, whose readyState has become CLOSED, followed by
\* the onPrevClose listener when one was added to r.
OnClose(s, r, wasClean) ==
    LET c == [r EXCEPT !.state = "closed", !.listen = None,
                       !.cur = IF r.kind = "effect" THEN FALSE ELSE r.cur]
        s1 == [s EXCEPT !.sockets = Swap(@, r, c),
                        !.isConnected = FALSE,
                        !.timers = IF Schedules(s, r, wasClean)
                                   THEN Put(@, Timer("backoff", r.serial, FALSE))
                                   ELSE @]
    IN  IF r.listen # None THEN OpenNewWs(s1, r.listen) ELSE s1

\* The 2s timer callback of ws.onclose
BackoffFire(s, t) ==
    IF s.currentSerialRef = t.serial THEN OpenNewWs(s, t.serial) ELSE s

\* The 100ms timer callback of handleReconnect
ManualFire(s, t) ==
    IF t.serial # None /\ t.hasInfo
    THEN LET c == ClearWs(s) IN
         [c EXCEPT !.sockets = Put(@, NewSocket(t.serial, "manual",
                                       s.currentSerialRef # t.serial))]
    ELSE s

\* refreshScreen
RefreshScreenUrl(s, d) ==
    LET live == IF s.imageUrlRef # NoUrl
                THEN RevokeObjectURL(s.liveUrls, s.imageUrlRef)
                ELSE s.liveUrls
    IN  [s EXCEPT !.liveUrls = live,
                  !.imageUrlRef = [kind |-> "http", id |-> 0, serial |-> d,
                                   stale |-> FALSE]]

(***************************************************************************)
(* The canvas view of ScreenCanvas: scale, hierarchy fit and coordinates.  *)
(* Fractional numbers are exact rationals [n, d] with d > 0 in lowest      *)
(* terms.                                                                  *)
(***************************************************************************)
RECURSIVE GCD(_, _)
GCD(a, b) == IF b = 0 THEN a ELSE GCD(b, a % b)

Rat(n, d) == LET g == GCD(n, d) IN [n |-> n \div g, d |-> d \div g]
One == [n |-> 1, d |-> 1]
Leq(a, b) == a.n * b.d <= b.n * a.d

\* Math.min and Math.max of two rationals
RatMin(a, b) == IF Leq(a, b) THEN a ELSE b
RatMax(a, b) == IF Leq(a, b) THEN b ELSE a

\* An integer as a rational, and the product of two rationals.
Q(k) == [n |-> k, d |-> 1]
Mul(a, b) == Rat(a.n * b.n, a.d * b.d)

\* Math.round(c / sc) for rationals c and sc > 0: the nearest integer,
\* halves up.
RoundDiv(c, sc) == (2 * c.n * sc.d + c.d * sc.n) \div (2 * c.d * sc.n)

\* Viewports: the clientWidth of the container (the canvas column has a
\* fixed width) and window.innerHeight.  The window is tall enough to leave
\* room below the page chrome.
Viewports ==
    {[clientWidth |-> 100, innerHeight |-> 301],
     [clientWidth |-> 100, innerHeight |-> 253],
     [clientWidth |-> 360, innerHeight |-> 1005]}

\* The space calculateScale finds for the canvas in viewport view.  The
\* container is rendered whenever a device is selected, and calculateScale
\* runs only then.
AvailableWidth(view) == IF view.clientWidth > 160 THEN view.clientWidth ELSE 160
AvailableHeight(view) == view.innerHeight - 96 - (55 + 16 + 38)

\* calculateScale without the cap of 120%.
CalculateScaleNoCap(view, deviceWidth, deviceHeight) ==
    RatMin(Rat(AvailableWidth(view), deviceWidth),
           Rat(AvailableHeight(view), deviceHeight))

\* calculateScale(deviceWidth, deviceHeight) in viewport view: the new
\* scale.  A division by 0 gives Infinity, which Math.min drops.
CalculateScale(view, deviceWidth, deviceHeight) ==
    LET sx == IF deviceWidth > 0 THEN Rat(AvailableWidth(view), deviceWidth)
              ELSE Rat(6, 5)
        sy == IF deviceHeight > 0 THEN Rat(AvailableHeight(view), deviceHeight)
              ELSE Rat(6, 5)
    IN  RatMin(RatMin(sx, sy), Rat(6, 5))

\* canvasSize, which calculateScale sets together with scale from the size
\* of the DeviceInfo stored with it.
CanvasSize(info, sc) ==
    [width |-> Mul(Q(info.width), sc), height |-> Mul(Q(info.height), sc)]

\* canvasToDevice that rounds the canvas coordinates as they are.
CanvasToDeviceUnscaled(info, sc, canvasX, canvasY) ==
    IF info = Null
    THEN [x |-> 0, y |-> 0]
    ELSE [x |-> RoundDiv(canvasX, One), y |-> RoundDiv(canvasY, One)]

\* canvasToDevice
CanvasToDevice(info, sc, canvasX, canvasY) ==
    IF info = Null
    THEN [x |-> 0, y |-> 0]
    ELSE [x |-> RoundDiv(canvasX, sc), y |-> RoundDiv(canvasY, sc)]

\* deviceToCanvas without the hierarchy fit.
DeviceToCanvasNoFit(fit, sc, deviceX, deviceY) ==
    [x |-> Mul(Q(deviceX), sc), y |-> Mul(Q(deviceY), sc)]

\* deviceToCanvas, for the hierarchyFit and the scale of the render
DeviceToCanvas(fit, sc, deviceX, deviceY) ==
    [x |-> Mul(Mul(Q(deviceX), fit.x), sc),
     y |-> Mul(Mul(Q(deviceY), fit.y), sc)]

\* The Rect drawn for an overlay of bounds b
OverlayRect(b, fit, sc) ==
    [x |-> DeviceToCanvas(fit, sc, b.x, b.y).x,
     y |-> DeviceToCanvas(fit, sc, b.x, b.y).y,
     width |-> Mul(Mul(Q(b.w), fit.x), sc),
     height |-> Mul(Mul(Q(b.h), fit.y), sc)]

\* A HierarchyNode is [tag, attributes, children].  A string is the
\* sequence of its characters; an attribute that is absent is the empty
\* string, and bounds_computed is Null when the node has none.
Bounds(x, y, w, h) == [x |-> x, y |-> y, w |-> w, h |-> h]
Attrs ==
    [visible |-> "true", clickable |-> "false", scrollable |-> "false",
     focusable |-> "false", longClickable |-> "false", text |-> <<>>,
     resourceId |-> <<>>, contentDesc |-> <<>>, bounds_computed |-> Null]
Node(tag, attributes, children) ==
    [tag |-> tag, attributes |-> attributes, children |-> children]

\* A node of tag "a.V" that has only bounds b, without children.
Leaf(b) == Node(<<"a", ".", "V">>, [Attrs EXCEPT !.bounds_computed = b], <<>>)

\* The tree of a root with bounds nodes[1] whose children are leaves with
\* the other bounds.
Tree(nodes) ==
    [Leaf(nodes[1]) EXCEPT
        !.children = [i \in 1..(Len(nodes) - 1) |-> Leaf(nodes[i + 1])]]

Trees ==
    {Tree(<<Null>>),
     Tree(<<Bounds(0, 0, 0, 0)>>),
     Tree(<<Bounds(0, 0, 40, 80), Bounds(5, 5, 10, 10)>>),
     Tree(<<Bounds(0, 0, 120, 240), Null, Bounds(60, 200, 60, 40)>>),
     Tree(<<Bounds(0, 0, 100000, 80)>>),
     Tree(<<Bounds(0, 0, 1, 1)>>),
     Tree(<<Bounds(0, 0, 48, 96)>>),
     Tree(<<Bounds(0 - 50, 0, 40, 300)>>),
     Tree(<<Bounds(0, 0, 1170, 2532)>>),
     [Leaf(Bounds(0, 0, 1080, 2400)) EXCEPT !.children =
         <<Node(<<"a", ".", "B">>,
                [Attrs EXCEPT !.clickable = "true",
                              !.bounds_computed = Bounds(100, 200, 200, 80)],
                <<>>)>>]}

SetMax(S) == CHOOSE m \in S : \A k \in S : k <= m

\* The nodes of a tree in the order n.children.forEach visits them.
RECURSIVE Walk(_)
RECURSIVE WalkAll(_)
Walk(n) == <<n>> \o WalkAll(n.children)
WalkAll(ns) ==
    IF Len(ns) = 0 THEN <<>> ELSE Walk(Head(ns)) \o WalkAll(Tail(ns))

\* estimateHierarchyBounds
EstimateHierarchyBounds(tree) ==
    LET b == [i \in DOMAIN Walk(tree) |->
                 Walk(tree)[i].attributes.bounds_computed]
        sized == {i \in DOMAIN b : b[i] # Null /\ b[i].w > 0 /\ b[i].h > 0}
    IN  [maxRight |-> SetMax({0} \cup {b[i].x + b[i].w : i \in sized}),
         maxBottom |-> SetMax({0} \cup {b[i].y + b[i].h : i \in sized})]

\* str.split(sep).pop(): what follows the last sep in str
LastSegment(str, sep) ==
    LET at == {i \in 1..Len(str) : str[i] = sep}
    IN  IF at = {} THEN str ELSE SubSeq(str, SetMax(at) + 1, Len(str))

\* The size test with <= and >= in place of < and >.
ReasonableSizeInclusive(b) ==
    b.w >= 10 /\ b.h >= 10 /\ b.w <= 2000 /\ b.h <= 3000

\* The size test of extractElementBounds
ReasonableSize(b) == b.w > 10 /\ b.h > 10 /\ b.w < 2000 /\ b.h < 3000

\* The condition under which traverse adds a visible node n to the results
Included(n) ==
    /\ n.attributes.bounds_computed # Null
    /\ \/ n.attributes.clickable = "true"
       \/ n.attributes.scrollable = "true"
       \/ n.attributes.focusable = "true"
       \/ n.attributes.longClickable = "true"
       \/ Len(n.attributes.text) > 0
    /\ ReasonableSize(n.attributes.bounds_computed)

\* The color chain with scrollable tested before clickable.
ColorScrollableFirst(n) ==
    IF n.attributes.scrollable = "true" THEN "#faad14"
    ELSE IF n.attributes.clickable = "true" THEN "#52c41a"
    ELSE IF n.attributes.longClickable = "true" THEN "#13c2c2"
    ELSE "#1890ff"

\* The color of the overlay of node n
Color(n) ==
    IF n.attributes.clickable = "true" THEN "#52c41a"
    ELSE IF n.attributes.scrollable = "true" THEN "#faad14"
    ELSE IF n.attributes.longClickable = "true" THEN "#13c2c2"
    ELSE "#1890ff"

\* The label of the overlay of node n
Label(n) ==
    LET a == n.attributes
        first == IF Len(a.text) > 0 THEN a.text
                 ELSE IF Len(a.resourceId) > 0
                      THEN LastSegment(a.resourceId, "/")
                 ELSE IF Len(a.contentDesc) > 0 THEN a.contentDesc
                 ELSE <<>>
        cut == IF Len(first) > 20
               THEN SubSeq(first, 1, 17) \o <<".", ".", ".">>
               ELSE first
    IN  IF Len(cut) > 0 THEN cut ELSE LastSegment(n.tag, ".")

\* traverse with the children processed before the node itself.
RECURSIVE TraversePostOrder(_)
RECURSIVE TraverseAllPostOrder(_)
TraversePostOrder(n) ==
    IF n.attributes.visible = "false"
    THEN TraverseAllPostOrder(n.children)
    ELSE TraverseAllPostOrder(n.children)
         \o (IF Included(n)
             THEN <<[bounds |-> n.attributes.bounds_computed,
                     label |-> Label(n), color |-> Color(n)]>>
             ELSE <<>>)
TraverseAllPostOrder(ns) ==
    IF Len(ns) = 0 THEN <<>>
    ELSE TraversePostOrder(Head(ns)) \o TraverseAllPostOrder(Tail(ns))

\* traverse without the visibility test.
RECURSIVE TraverseInvisibleToo(_)
RECURSIVE TraverseAllInvisibleToo(_)
TraverseInvisibleToo(n) ==
    (IF Included(n)
     THEN <<[bounds |-> n.attributes.bounds_computed, label |-> Label(n),
             color |-> Color(n)]>>
     ELSE <<>>) \o TraverseAllInvisibleToo(n.children)
TraverseAllInvisibleToo(ns) ==
    IF Len(ns) = 0 THEN <<>>
    ELSE TraverseInvisibleToo(Head(ns)) \o TraverseAllInvisibleToo(Tail(ns))

\* traverse(n): the results node n and its descendants add, in order
RECURSIVE Traverse(_)
RECURSIVE TraverseAll(_)
Traverse(n) ==
    IF n.attributes.visible = "false"
    THEN TraverseAll(n.children)
    ELSE (IF Included(n)
          THEN <<[bounds |-> n.attributes.bounds_computed,
                  label |-> Label(n), color |-> Color(n)]>>
          ELSE <<>>) \o TraverseAll(n.children)
TraverseAll(ns) ==
    IF Len(ns) = 0 THEN <<>> ELSE Traverse(Head(ns)) \o TraverseAll(Tail(ns))

\* extractElementBounds
ExtractElementBounds(node) == Traverse(node)

\* The clamp left out.
NoClamp(fit) == fit

\* The clamp of recalcHierarchyFit: Math.max(0.1, Math.min(2, fit))
Clamp(fit) == RatMax(Rat(1, 10), RatMin(Rat(2, 1), fit))

\* The comparison without the margin of 20%.
OversizedNoMargin(e, dInfo) ==
    e.maxRight > dInfo.width \/ e.maxBottom > dInfo.height

\* oversizedX || oversizedY: maxRight > dInfo.width * 1.2 or
\* maxBottom > dInfo.height * 1.2.  The product of an integer by 1.2 rounds
\* to the integer 6/5 of it when that is one, so the comparison is exact.
Oversized(e, dInfo) ==
    5 * e.maxRight > 6 * dInfo.width \/ 5 * e.maxBottom > 6 * dInfo.height

\* The fit of one axis taken from the extent even when a frame is decoded.
FitByExtent(d, f, m, byFrame) == Rat(d, m)

\* The fit of one axis of an oversized hierarchy, for device size d, frame
\* size f and extent m: dInfo.width / frame.width or dInfo.width / maxRight.
Fit(d, f, m, byFrame) == IF byFrame THEN Rat(d, f) ELSE Rat(d, m)

\* recalcHierarchyFit(tree, dInfo, frame): the new hierarchyFit
RecalcHierarchyFit(tree, dInfo, frame) ==
    IF tree = Null \/ dInfo = Null
    THEN [x |-> One, y |-> One]
    ELSE
    LET e == EstimateHierarchyBounds(tree) IN
    IF e.maxRight <= 0 \/ e.maxBottom <= 0
    THEN [x |-> One, y |-> One]
    ELSE
    LET byFrame == frame.width > 0 /\ frame.height > 0
        fitX == IF ~Oversized(e, dInfo) THEN One
                ELSE Fit(dInfo.width, frame.width, e.maxRight, byFrame)
        fitY == IF ~Oversized(e, dInfo) THEN One
                ELSE Fit(dInfo.height, frame.height, e.maxBottom, byFrame)
    IN  [x |-> Clamp(fitX), y |-> Clamp(fitY)]

(***************************************************************************)
(* The state machine.                                                      *)
(***************************************************************************)

Init ==
    /\ selectedDevice = None
    /\ deviceSerial = None
    /\ currentSerialRef = None
    /\ isConnected = FALSE
    /\ loading = FALSE
    /\ imageUrlRef = NoUrl
    /\ liveUrls = {}
    /\ images = {}
    /\ imageRef = NoUrl
    /\ sockets = EmptyBag
    /\ timers = EmptyBag
    /\ deviceInfo = Null
    /\ scale = One
    /\ hierarchy = Null
    /\ frameSize = [width |-> 0, height |-> 0, serial |-> None]
    /\ hierarchyFit = [x |-> One, y |-> One]
    /\ viewport = [clientWidth |-> 100, innerHeight |-> 301]
    /\ elementBounds = <<>>
    /\ tapMode = FALSE
    /\ tapStartRef = Null
    /\ swipeArrow = Null
    /\ requests = EmptyBag
    /\ fetches = {}
    /\ hierarchyOf = None
    /\ overlays = <<>>
    /\ selectedElement = Null
    /\ appHierarchy = Null
    /\ warning = None

\* No render is waiting for its effects.
Idle == selectedDevice = deviceSerial

\* The toolbar and the canvas are rendered only with a device and not loading.
ToolbarShown == Idle /\ deviceSerial # None /\ ~loading

TimerRoom == BagCardinality(timers) < MaxTimers

\* loadDevices: selects the first device of the list when none is selected.
LoadDevices ==
    /\ Idle
    /\ selectedDevice = None
    /\ selectedDevice' = Devices[1]
    /\ UNCHANGED <<deviceSerial, currentSerialRef, isConnected, loading,
                   imageUrlRef, liveUrls, images, sockets, timers,
                   canvasVars>>

\* The state of the canvas that App.handleDeviceChange leaves alone.
viewVars == <<deviceInfo, scale, hierarchy, frameSize, imageRef, hierarchyFit,
              viewport, elementBounds, tapMode, tapStartRef, swipeArrow, requests>>

\* handleDeviceChange that asks to stop the stream of the new device.
HandleDeviceChangeStopNew(serial) ==
    /\ Idle
    /\ selectedDevice # None
    /\ serial # selectedDevice
    /\ CanCreate(Collect(ForceDisconnect(St)))
    /\ SetSt(ForceDisconnect(St))
    /\ fetches' = fetches \cup {Fetch("stop", serial)}
    /\ selectedDevice' = serial
    /\ appHierarchy' = Null
    /\ overlays' = <<>>
    /\ selectedElement' = Null
    /\ UNCHANGED <<deviceSerial, viewVars, hierarchyOf, warning>>

\* App.handleDeviceChange(serial) for another device than the selected one
\* (the Select calls onChange when the value changes; the device is in the
\* list it was picked from).
HandleDeviceChange(serial) ==
    /\ Idle
    /\ selectedDevice # None
    /\ serial # selectedDevice
    /\ CanCreate(Collect(ForceDisconnect(St)))
    /\ SetSt(ForceDisconnect(St))
    /\ fetches' = fetches \cup {Fetch("stop", selectedDevice)}
    /\ selectedDevice' = serial
    /\ appHierarchy' = Null
    /\ overlays' = <<>>
    /\ selectedElement' = Null
    /\ UNCHANGED <<deviceSerial, viewVars, hierarchyOf, warning>>

\* React commits the render with the new deviceSerial: cleanup of the old
\* streaming effect, then the new effect body; the device-info effect and
\* the hierarchy auto-load effect send their requests.
Commit ==
    /\ ~Idle
    /\ LET s1 == IF deviceSerial # None THEN EffectCleanup(St) ELSE St
       IN  SetSt(EffectBody(s1, selectedDevice))
    /\ deviceSerial' = selectedDevice
    /\ fetches' = fetches \cup {Fetch("info", selectedDevice),
                                 Fetch("hierarchy", selectedDevice)}
    /\ UNCHANGED <<selectedDevice, viewVars, hierarchyOf, overlays,
                   selectedElement, appHierarchy, warning>>

\* The connection of socket r is established.
WsOpen(r) ==
    /\ Idle
    /\ BagIn(r, sockets)
    /\ r.state = "connecting"
    /\ SetSt(OnOpen(St, r))
    /\ UNCHANGED <<selectedDevice, deviceSerial, canvasVars>>

\* A frame arrives on socket r; the browser delivers messages only while the
\* readyState is OPEN.
WsMessage(r) ==
    /\ Idle
    /\ BagIn(r, sockets)
    /\ r.state = "open"
    /\ SetSt(OnMessage(St, r))
    /\ UNCHANGED <<selectedDevice, deviceSerial, canvasVars>>

\* Socket r closes cleanly: the close handshake completes.
WsCloseClean(r) ==
    /\ Idle
    /\ BagIn(r, sockets)
    /\ r.state \in {"open", "closing"}
    /\ r.listen # None => CanCreate(St)
    /\ SetSt(OnClose(St, r, TRUE))
    /\ UNCHANGED <<selectedDevice, deviceSerial, canvasVars>>

\* Socket r fails: connect error, dropped connection, or close() before the
\* connection was established.  The error event comes before the close event.
WsFail(r) ==
    /\ Idle
    /\ BagIn(r, sockets)
    /\ r.state \in {"connecting", "open", "closing", "aborting"}
    /\ r.listen # None => CanCreate(St)
    /\ Schedules(St, r, FALSE) => TimerRoom
    /\ SetSt(OnClose(OnError(St, r), r, FALSE))
    /\ UNCHANGED <<selectedDevice, deviceSerial, canvasVars>>

\* A 2s reconnect timer fires.
BackoffTimerFire(t) ==
    /\ Idle
    /\ BagIn(t, timers)
    /\ t.kind = "backoff"
    /\ Opens(St, t.serial) => CanCreate(St)
    /\ SetSt(BackoffFire([St EXCEPT !.timers = Take(@, t)], t))
    /\ UNCHANGED <<selectedDevice, deviceSerial, canvasVars>>

\* A 100ms manual-reconnect timer fires.
ManualTimerFire(t) ==
    /\ Idle
    /\ BagIn(t, timers)
    /\ t.kind = "manual"
    /\ t.hasInfo => CanCreate(St)
    /\ SetSt(ManualFire([St EXCEPT !.timers = Take(@, t)], t))
    /\ UNCHANGED <<selectedDevice, deviceSerial, canvasVars>>

\* handleReconnect: the operator clicks "Reconnect WebSocket".
HandleReconnect ==
    /\ ToolbarShown
    /\ TimerRoom
    /\ LET s1 == CleanupImageUrl(CloseWebSocket(St))
       IN  SetSt([s1 EXCEPT !.loading = TRUE,
                            !.timers = Put(@, Timer("manual", deviceSerial,
                                                    deviceInfo # Null))])
    /\ UNCHANGED <<selectedDevice, deviceSerial, canvasVars>>

\* refreshScreen: the operator clicks "Refresh Screenshot".
RefreshScreen ==
    /\ ToolbarShown
    /\ SetSt(RefreshScreenUrl(St, deviceSerial))
    /\ UNCHANGED <<selectedDevice, deviceSerial, canvasVars>>

\* A getDeviceInfo request of the device-info effect succeeds:
\* setDeviceInfo(info).  The state is never set back to null.
\* It is followed by calculateScale and, in the effect of the render, by
\* recalcHierarchyFit.
DeviceInfoResponse(info) ==
    /\ Idle
    /\ \E f \in fetches : f.kind = "info" /\ fetches' = fetches \ {f}
    /\ deviceInfo' = info
    /\ scale' = CalculateScale(viewport, info.width, info.height)
    /\ hierarchyFit' = RecalcHierarchyFit(hierarchy, info, frameSize)
    /\ UNCHANGED <<selectedDevice, deviceSerial, currentSerialRef,
                   isConnected, loading, imageUrlRef, liveUrls, images,
                   sockets, timers, hierarchy, frameSize, imageRef, viewport,
                   elementBounds,
                   tapMode, tapStartRef, swipeArrow, requests, hierarchyOf,
                   overlays, selectedElement, appHierarchy, warning>>

\* The events of the socket objects and the timers that exist.
WsOpenEvent == \E r \in DOMAIN sockets : WsOpen(r)
WsMessageEvent == \E r \in DOMAIN sockets : WsMessage(r)
WsCloseCleanEvent == \E r \in DOMAIN sockets : WsCloseClean(r)
WsFailEvent == \E r \in DOMAIN sockets : WsFail(r)
BackoffTimerEvent == \E t \in DOMAIN timers : BackoffTimerFire(t)
ManualTimerEvent == \E t \in DOMAIN timers : ManualTimerFire(t)

Next ==
    \/ LoadDevices
    \/ \E d \in Serials : HandleDeviceChange(d)
    \/ Commit
    \/ WsOpenEvent
    \/ WsMessageEvent
    \/ WsCloseCleanEvent
    \/ WsFailEvent
    \/ BackoffTimerEvent
    \/ ManualTimerEvent
    \/ HandleReconnect
    \/ RefreshScreen
    \/ DeviceInfoResponse(Info)

Spec == Init /\ [][Next]_vars

TypeOK ==
    /\ selectedDevice \in Serials \cup {None}
    /\ deviceSerial \in Serials \cup {None}
    /\ currentSerialRef \in Serials \cup {None}
    /\ DOMAIN sockets \subseteq SocketRecs
    /\ DOMAIN timers \subseteq Timers
    /\ \A r \in DOMAIN sockets : r.cur => sockets[r] = 1
    /\ Cardinality({r \in DOMAIN sockets : r.cur}) <= 1
    /\ BagCardinality(sockets) <= MaxSockets
    /\ BagCardinality(timers) <= MaxTimers
    /\ deviceInfo \in DeviceInfos \cup {Null}
    /\ Idle /\ deviceSerial # None => currentSerialRef = deviceSerial

(***************************************************************************)
(* The gesture recognizer of the canvas (tap mode).                        *)
(***************************************************************************)

\* Bound of the model: tap/swipe requests in flight at once.
MaxRequests == 2

SWIPE_THRESHOLD == 20
SwipeDuration == 300

\* Pointer positions on the Stage, in canvas pixels.
Points == {[x |-> 0, y |-> 0], [x |-> 12, y |-> 16], [x |-> 21, y |-> 0]}

\* The comparison with >= in place of >.
BeyondOrAt(dx, dy) == dx * dx + dy * dy >= SWIPE_THRESHOLD * SWIPE_THRESHOLD

\* Math.sqrt(dx * dx + dy * dy) > SWIPE_THRESHOLD, for integers
Beyond(dx, dy) == dx * dx + dy * dy > SWIPE_THRESHOLD * SWIPE_THRESHOLD

\* interactionAPI.tap and interactionAPI.swipe: the request sent
Tap(serial, start) ==
    [kind |-> "tap", serial |-> serial, x |-> start.x, y |-> start.y]
Swipe(serial, start, end) ==
    [kind |-> "swipe", serial |-> serial, x1 |-> start.x, y1 |-> start.y,
     x2 |-> end.x, y2 |-> end.y, duration |-> SwipeDuration]

\* The request handleMouseUp sends for the captured gesture and the
\* pointer-up position pos.
Intent(start, pos) ==
    IF Beyond(pos.x - start.canvasX, pos.y - start.canvasY)
    THEN Swipe(deviceSerial, start,
               CanvasToDevice(deviceInfo, scale, Q(pos.x), Q(pos.y)))
    ELSE Tap(deviceSerial, start)

\* The Stage is rendered under the same condition as the toolbar.
StageShown == ToolbarShown

sessionVars == <<selectedDevice, deviceSerial, currentSerialRef, isConnected,
                 loading, imageUrlRef, liveUrls, images, sockets, timers>>
fitVars == <<deviceInfo, scale, hierarchy, frameSize, imageRef, hierarchyFit,
             viewport, elementBounds, appVars>>

\* handleMouseDown without the tap-mode check.
HandleMouseDownAnyMode(pos) ==
    /\ StageShown
    /\ tapStartRef' =
           [x |-> CanvasToDevice(deviceInfo, scale, Q(pos.x), Q(pos.y)).x,
            y |-> CanvasToDevice(deviceInfo, scale, Q(pos.x), Q(pos.y)).y,
            canvasX |-> pos.x, canvasY |-> pos.y]
    /\ swipeArrow' = Null
    /\ UNCHANGED <<sessionVars, fitVars, tapMode, requests>>

\* handleMouseDown at position pos
HandleMouseDown(pos) ==
    /\ StageShown
    /\ IF tapMode
       THEN /\ tapStartRef' =
                   [x |-> CanvasToDevice(deviceInfo, scale, Q(pos.x), Q(pos.y)).x,
                    y |-> CanvasToDevice(deviceInfo, scale, Q(pos.x), Q(pos.y)).y,
                    canvasX |-> pos.x, canvasY |-> pos.y]
            /\ swipeArrow' = Null
       ELSE UNCHANGED <<tapStartRef, swipeArrow>>
    /\ UNCHANGED <<sessionVars, fitVars, tapMode, requests>>

\* handleMouseMove at position pos
HandleMouseMove(pos) ==
    /\ StageShown
    /\ IF /\ tapMode
          /\ tapStartRef # Null
          /\ Beyond(pos.x - tapStartRef.canvasX, pos.y - tapStartRef.canvasY)
       THEN swipeArrow' = [x1 |-> tapStartRef.canvasX,
                           y1 |-> tapStartRef.canvasY,
                           x2 |-> pos.x, y2 |-> pos.y]
       ELSE UNCHANGED swipeArrow
    /\ UNCHANGED <<sessionVars, fitVars, tapMode, tapStartRef, requests>>

\* handleMouseLeave that also cancels the gesture.
HandleMouseLeaveCancel ==
    /\ StageShown
    /\ swipeArrow' = Null
    /\ tapStartRef' = Null
    /\ UNCHANGED <<sessionVars, fitVars, tapMode, requests>>

\* handleMouseLeave
HandleMouseLeave ==
    /\ StageShown
    /\ swipeArrow' = Null
    /\ UNCHANGED <<sessionVars, fitVars, tapMode, tapStartRef, requests>>

\* handleMouseUp that keeps the swipe preview when it sends a tap.
HandleMouseUpKeepArrow(pos) ==
    /\ StageShown
    /\ tapMode
    /\ tapStartRef # Null
    /\ BagCardinality(requests) < MaxRequests
    /\ tapStartRef' = Null
    /\ swipeArrow' = IF Intent(tapStartRef, pos).kind = "tap"
                     THEN swipeArrow ELSE Null
    /\ requests' = Put(requests, Intent(tapStartRef, pos))
    /\ UNCHANGED <<sessionVars, fitVars, tapMode>>

\* handleMouseUp at position pos.  The Stage delivers it wherever the
\* pointer-down was, on the Stage or not.
HandleMouseUp(pos) ==
    /\ StageShown
    /\ IF ~tapMode \/ tapStartRef = Null
       THEN UNCHANGED <<tapStartRef, swipeArrow, requests>>
       ELSE /\ tapStartRef' = Null
            /\ swipeArrow' = Null
            /\ IF deviceSerial # None
               THEN /\ BagCardinality(requests) < MaxRequests
                    /\ requests' = Put(requests, Intent(tapStartRef, pos))
               ELSE UNCHANGED requests
    /\ UNCHANGED <<sessionVars, fitVars, tapMode>>

\* The tap-mode button: setTapMode(prev => !prev)
ToggleTapMode ==
    /\ ToolbarShown
    /\ tapMode' = ~tapMode
    /\ UNCHANGED <<sessionVars, fitVars, tapStartRef, swipeArrow, requests>>

\* A settled promise that resets the recognizer.
RequestOutcomeReset(q) ==
    /\ BagIn(q, requests)
    /\ requests' = Take(requests, q)
    /\ tapStartRef' = Null
    /\ swipeArrow' = Null
    /\ UNCHANGED <<sessionVars, fitVars, tapMode>>

\* The promise of request q settles, fulfilled or rejected: a message is
\* shown in both cases.
RequestOutcome(q) ==
    /\ BagIn(q, requests)
    /\ q.kind \in {"tap", "swipe"}
    /\ \E ok \in BOOLEAN : requests' = Take(requests, q)
    /\ UNCHANGED <<sessionVars, fitVars, tapMode, tapStartRef, swipeArrow>>

RequestOutcomeEvent == \E q \in DOMAIN requests : RequestOutcome(q)

GestureNext ==
    \/ \E pos \in Points : HandleMouseDown(pos)
    \/ \E pos \in Points : HandleMouseMove(pos)
    \/ HandleMouseLeave
    \/ \E pos \in Points : HandleMouseUp(pos)
    \/ ToggleTapMode
    \/ RequestOutcomeEvent
    \/ \E info \in DeviceInfos : DeviceInfoResponse(info)

\* The recognizer on a session that connects and stays connected.
NextGesture ==
    \/ LoadDevices
    \/ Commit
    \/ WsOpenEvent
    \/ GestureNext

SpecGesture == Init /\ [][NextGesture]_vars

\* The recognizer across device switches.
NextSwitch ==
    \/ LoadDevices
    \/ \E d \in Serials : HandleDeviceChange(d)
    \/ Commit
    \/ WsOpenEvent
    \/ WsCloseCleanEvent
    \/ WsFailEvent
    \/ BackoffTimerEvent
    \/ \E pos \in Points : HandleMouseDown(pos)
    \/ \E pos \in Points : HandleMouseUp(pos)
    \/ ToggleTapMode
    \/ RequestOutcomeEvent

SpecSwitch == Init /\ [][NextSwitch]_vars

(***************************************************************************)
(* The hierarchy fit of the canvas.                                        *)
(***************************************************************************)

\* Sizes of decoded frames.
FrameSizes ==
    {[width |-> 10, height |-> 10], [width |-> 120, height |-> 240],
     [width |-> 1080, height |-> 2400]}

\* A dumpHierarchy request of the auto-load effect or of refreshHierarchy
\* succeeds: setHierarchy(response.hierarchy), setElementBounds and
\* onHierarchyLoaded, which is App.handleHierarchyLoaded; then the effect of
\* the render runs recalcHierarchyFit.
HierarchyResponse(tree) ==
    /\ Idle
    /\ \E f \in fetches :
          /\ f.kind = "hierarchy"
          /\ fetches' = fetches \ {f}
          /\ hierarchyOf' = f.serial
    /\ hierarchy' = tree
    /\ elementBounds' = ExtractElementBounds(tree)
    /\ appHierarchy' = tree
    /\ hierarchyFit' = RecalcHierarchyFit(tree, deviceInfo, frameSize)
    /\ UNCHANGED <<sessionVars, deviceInfo, scale, frameSize, imageRef,
                   viewport,
                   tapMode, tapStartRef, swipeArrow, requests, overlays,
                   selectedElement, warning>>

\* A dumpHierarchy failure handler that drops the hierarchy shown.
FetchSettlesClears(f) ==
    /\ Idle
    /\ f \in fetches
    /\ f.kind \in {"info", "hierarchy", "stop"}
    /\ fetches' = fetches \ {f}
    /\ hierarchy' = IF f.kind = "hierarchy" THEN Null ELSE hierarchy
    /\ elementBounds' = IF f.kind = "hierarchy" THEN <<>> ELSE elementBounds
    /\ UNCHANGED <<sessionVars, deviceInfo, scale, frameSize, imageRef,
                   hierarchyFit,
                   viewport, tapMode, tapStartRef, swipeArrow, requests,
                   hierarchyOf, overlays, selectedElement, appHierarchy,
                   warning>>

\* A request of kind kind fails (an exception, or a response without
\* success): a message is shown.  For getDeviceInfo, dumpHierarchy and
\* stopStream, whose failure handlers set no state; a stopStream request
\* that succeeds sets none either.
FetchSettles(f) ==
    /\ Idle
    /\ f \in fetches
    /\ f.kind \in {"info", "hierarchy", "stop"}
    /\ fetches' = fetches \ {f}
    /\ UNCHANGED <<sessionVars, viewVars, hierarchyOf, overlays,
                   selectedElement, appHierarchy, warning>>

FetchSettlesEvent == \E f \in fetches : FetchSettles(f)

\* refreshHierarchy: the operator clicks "Refresh UI Hierarchy".
RefreshHierarchy ==
    /\ ToolbarShown
    /\ Fetch("hierarchy", deviceSerial) \notin fetches
    /\ fetches' = fetches \cup {Fetch("hierarchy", deviceSerial)}
    /\ UNCHANGED <<sessionVars, viewVars, hierarchyOf, overlays,
                   selectedElement, appHierarchy, warning>>

\* The session state that img.onload leaves alone.
streamVars == <<selectedDevice, deviceSerial, currentSerialRef, isConnected,
                loading, imageUrlRef, liveUrls, sockets, timers>>

\* img.onload that stores the frame size and leaves the fit as it was.
FrameLoadedStaleFit(size) ==
    /\ Idle
    /\ \E url \in images :
          /\ images' = images \ {url}
          /\ imageRef' = url
          /\ frameSize' = [width |-> size.width, height |-> size.height,
                           serial |-> url.serial]
    /\ UNCHANGED <<streamVars, deviceInfo, scale, hierarchy, hierarchyFit,
                   viewport, elementBounds, tapMode, tapStartRef, swipeArrow,
                   requests, appVars>>

\* img.onload of an Image that has been decoded, with its size:
\* imageRef.current = img and setFrameSize, then the effect of the render
\* runs recalcHierarchyFit.  The load event of an Image comes once.
FrameLoaded(size) ==
    /\ Idle
    /\ \E url \in images :
          /\ images' = images \ {url}
          /\ imageRef' = url
          /\ frameSize' = [width |-> size.width, height |-> size.height,
                           serial |-> url.serial]
    /\ hierarchyFit' = RecalcHierarchyFit(hierarchy, deviceInfo, frameSize')
    /\ UNCHANGED <<streamVars, deviceInfo, scale, hierarchy, viewport,
                   elementBounds, tapMode, tapStartRef, swipeArrow, requests,
                   appVars>>

\* The window is resized: handleResize is registered while there is a
\* DeviceInfo.
Resize(view) ==
    /\ view # viewport
    /\ viewport' = view
    /\ scale' = IF deviceInfo = Null THEN scale
                ELSE CalculateScale(view, deviceInfo.width, deviceInfo.height)
    /\ UNCHANGED <<sessionVars, deviceInfo, hierarchy, frameSize, imageRef,
                   hierarchyFit, elementBounds, tapMode, tapStartRef,
                   swipeArrow, requests, appVars>>

NextFit ==
    \/ LoadDevices
    \/ Commit
    \/ WsOpenEvent
    \/ WsMessageEvent
    \/ \E info \in DeviceInfos : DeviceInfoResponse(info)
    \/ \E tree \in Trees : HierarchyResponse(tree)
    \/ \E size \in FrameSizes : FrameLoaded(size)
    \/ \E view \in Viewports : Resize(view)

SpecFit == Init /\ [][NextFit]_vars

\* The Rects of the element bounds layer, which is hidden in tap mode (the
\* showElementBounds switch is left on).
ElementRects ==
    IF tapMode THEN <<>>
    ELSE [k \in DOMAIN elementBounds |->
             OverlayRect(elementBounds[k].bounds, hierarchyFit, scale)]

(***************************************************************************)
(* Select mode: a click on the Stage asks for the element at a point.      *)
(***************************************************************************)

\* elementAPI.findByCoordinate: the request sent
Lookup(serial, pt) ==
    [kind |-> "lookup", serial |-> serial, x |-> pt.x, y |-> pt.y]

\* The direct mapping of handleClick from canvas pixels to frame pixels
FramePixel(pos, frame, canvas) ==
    [x |-> RoundDiv(Q(pos.x * frame.width), canvas.width),
     y |-> RoundDiv(Q(pos.y * frame.height), canvas.height)]

\* The point (hx, hy) handleClick passes to onTap
HitPoint(pos) ==
    IF frameSize.width > 0 /\ CanvasSize(deviceInfo, scale).width.n > 0
    THEN FramePixel(pos, frameSize, CanvasSize(deviceInfo, scale))
    ELSE CanvasToDevice(deviceInfo, scale, Q(pos.x), Q(pos.y))

\* handleClick without the tap-mode check.
HandleClickAnyMode(pos) ==
    /\ StageShown
    /\ IF deviceInfo # Null /\ selectedDevice # None
       THEN /\ BagCardinality(requests) < MaxRequests
            /\ requests' = Put(requests, Lookup(selectedDevice, HitPoint(pos)))
       ELSE UNCHANGED requests
    /\ UNCHANGED <<sessionVars, fitVars, tapMode, tapStartRef, swipeArrow>>

\* handleClick at position pos, and App.handleTap that it calls as onTap
HandleClick(pos) ==
    /\ StageShown
    /\ IF ~tapMode /\ deviceInfo # Null /\ selectedDevice # None
       THEN /\ BagCardinality(requests) < MaxRequests
            /\ requests' = Put(requests, Lookup(selectedDevice, HitPoint(pos)))
       ELSE UNCHANGED requests
    /\ UNCHANGED <<sessionVars, fitVars, tapMode, tapStartRef, swipeArrow>>

\* What a findByCoordinate request for device serial can come back with:
\* an element of that device (device is a history field), with or without
\* computed bounds and with a tag that may end in a dot; no element; or an
\* exception.
LookupResults(serial) ==
    {[success |-> TRUE,
      element |-> [tag |-> tag, bounds_computed |-> b, device |-> serial]] :
        tag \in {<<"a", ".", "B">>, <<"a", ".">>},
        b \in {Null, Bounds(1, 2, 50, 60)}}
    \cup {[success |-> FALSE], [throws |-> TRUE]}

\* The overlay App.handleTap draws for the element found.
FoundOverlay(element) ==
    [bounds |-> element.bounds_computed, color |-> "#52c41a",
     label |-> IF LastSegment(element.tag, ".") # <<>>
               THEN LastSegment(element.tag, ".")
               ELSE <<"E", "l", "e", "m", "e", "n", "t">>]

\* The findByCoordinate promise of request q settles with result:
\* App.handleTap after the await.
LookupOutcome(q, result) ==
    /\ BagIn(q, requests)
    /\ q.kind = "lookup"
    /\ requests' = Take(requests, q)
    /\ IF result = [throws |-> TRUE] \/ ~result.success
       THEN UNCHANGED <<selectedElement, overlays>>
       ELSE /\ selectedElement' = result.element
            /\ overlays' = IF result.element.bounds_computed # Null
                           THEN <<FoundOverlay(result.element)>>
                           ELSE overlays
    /\ UNCHANGED <<sessionVars, deviceInfo, scale, hierarchy, frameSize,
                   imageRef,
                   hierarchyFit, viewport, elementBounds, tapMode,
                   tapStartRef, swipeArrow, fetches, hierarchyOf,
                   appHierarchy, warning>>

LookupOutcomeEvent ==
    \E q \in DOMAIN requests :
        \E result \in LookupResults(q.serial) : LookupOutcome(q, result)

\* executeQuery that sends the query whether a device is selected or not.
ExecuteQueryAnyDevice(query) ==
    /\ Idle
    /\ IF \A k \in DOMAIN query : query[k] = " "
       THEN warning' = "Please enter an XPath query" /\ UNCHANGED fetches
       ELSE /\ Fetch("xpath", selectedDevice) \notin fetches
            /\ fetches' = fetches \cup {Fetch("xpath", selectedDevice)}
            /\ UNCHANGED warning
    /\ UNCHANGED <<sessionVars, viewVars, hierarchyOf, overlays,
                   selectedElement, appHierarchy>>

\* executeQuery of the XPath playground, whose deviceSerial prop is
\* App's selectedDevice, with the text query in the input (Ctrl+Enter; the
\* button is disabled without a device).  !xpathQuery.trim() holds of a
\* text of white space only.
ExecuteQuery(query) ==
    /\ Idle
    /\ IF selectedDevice = None
       THEN warning' = "Please select a device first" /\ UNCHANGED fetches
       ELSE IF \A k \in DOMAIN query : query[k] = " "
       THEN warning' = "Please enter an XPath query" /\ UNCHANGED fetches
       ELSE /\ Fetch("xpath", selectedDevice) \notin fetches
            /\ fetches' = fetches \cup {Fetch("xpath", selectedDevice)}
            /\ UNCHANGED warning
    /\ UNCHANGED <<sessionVars, viewVars, hierarchyOf, overlays,
                   selectedElement, appHierarchy>>

\* The bounds of the matches a queryXPath response can hold.
Matches == {<<>>, <<Bounds(1, 2, 50, 60), Bounds(3, 4, 50, 60)>>}

\* handleXPathResults: one red overlay per match
XPathOverlays(bounds) ==
    [k \in DOMAIN bounds |->
        [bounds |-> bounds[k], color |-> "#ff4d4f",
         label |-> <<"M", "a", "t", "c", "h", " ", ToString(k)>>]]

\* The queryXPath promise of request f settles: with matches, or without
\* success or with an exception (no overlays).
XPathOutcome(f, success, bounds) ==
    /\ Idle
    /\ f \in fetches
    /\ f.kind = "xpath"
    /\ fetches' = fetches \ {f}
    /\ overlays' = IF success THEN XPathOverlays(bounds) ELSE <<>>
    /\ UNCHANGED <<sessionVars, viewVars, hierarchyOf, selectedElement,
                   appHierarchy, warning>>

XPathOutcomeEvent ==
    \E f \in fetches :
        \E success \in BOOLEAN : \E bounds \in Matches :
            XPathOutcome(f, success, bounds)

\* Clicks across device switches, while frames arrive.
NextClick ==
    \/ LoadDevices
    \/ \E serial \in Serials : HandleDeviceChange(serial)
    \/ Commit
    \/ WsOpenEvent
    \/ WsMessageEvent
    \/ DeviceInfoResponse(Info)
    \/ \E size \in FrameSizes : FrameLoaded(size)
    \/ \E pos \in Points : HandleClick(pos)
    \/ ToggleTapMode
    \/ LookupOutcomeEvent

SpecClick == Init /\ [][NextClick]_vars

\* The pointer handlers of both modes on a session that stays connected.
NextPointer ==
    \/ NextGesture
    \/ \E pos \in Points : HandleClick(pos)
    \/ LookupOutcomeEvent

SpecPointer == Init /\ [][NextPointer]_vars

(***************************************************************************)
(* The hierarchies given to extractElementBounds.                          *)
(***************************************************************************)

\* Attributes that make a node interactive in the way named by mark.
Marked(mark) ==
    CASE mark = "clickable" -> [Attrs EXCEPT !.clickable = "true"]
      [] mark = "scrollable" -> [Attrs EXCEPT !.scrollable = "true"]
      [] mark = "focusable" -> [Attrs EXCEPT !.focusable = "true"]
      [] mark = "longClickable" -> [Attrs EXCEPT !.longClickable = "true"]
      [] mark = "text" -> [Attrs EXCEPT !.text = <<"O", "K">>]
      [] mark = "both" -> [Attrs EXCEPT !.clickable = "true",
                                        !.scrollable = "true"]
      [] OTHER -> Attrs
Marks ==
    {"none", "clickable", "scrollable", "focusable", "longClickable", "text",
     "both"}

\* Single nodes of every mark and visibility around the size limits.
SizedNodes ==
    {Node(<<"a", ".", "V">>,
          [Marked(mark) EXCEPT !.visible = visible,
                               !.bounds_computed = Bounds(0, 0, w, h)],
          <<>>) :
        mark \in Marks, visible \in {"true", "false"},
        w \in {5, 10, 11, 1999, 2000}, h \in {10, 11, 2999, 3000}}

\* A visible clickable node of valid size.
Button ==
    Node(<<"a", ".", "B">>,
         [Marked("clickable") EXCEPT !.bounds_computed = Bounds(1, 2, 50, 60)],
         <<>>)

\* Invisible nodes of every mark, with and without a valid size, above a
\* Button, directly or below a visible container; and an invisible node
\* below an invisible node.
NestedNodes ==
    LET hidden == {n \in SizedNodes :
                      /\ n.attributes.visible = "false"
                      /\ n.attributes.bounds_computed.w \in {5, 11}
                      /\ n.attributes.bounds_computed.h = 11}
    IN  {[n EXCEPT !.children = <<Button>>] : n \in hidden}
        \cup {Leaf(Null)} 
        \cup {[Leaf(Bounds(0, 0, 40, 80)) EXCEPT
                  !.children = <<[n EXCEPT !.children = <<Button>>]>>] :
               n \in hidden}
        \cup {[n EXCEPT !.children = <<[n EXCEPT !.children = <<Button>>],
                                       Button>>] : n \in hidden}

\* Visible clickable nodes of valid size with every combination of label
\* sources: text (none, short, 20 and 21 characters), resource-id (none,
\* "p/b", "p/", "id"), content-desc and tag.
LabelNodes ==
    {Node(tag,
          [Marked("clickable") EXCEPT
              !.bounds_computed = Bounds(0, 0, 50, 60), !.text = text,
              !.resourceId = rid, !.contentDesc = desc],
          <<>>) :
        tag \in {<<"a", ".", "V">>, <<"V">>},
        text \in {<<>>, <<"O", "K">>, [i \in 1..20 |-> "x"],
                  [i \in 1..21 |-> "x"]},
        rid \in {<<>>, <<"p", "/", "b">>, <<"p", "/">>, <<"i", "d">>},
        desc \in {<<>>, <<"c", "d">>}}

\* Visible nodes of valid size with every combination of the four
\* interactive attributes, with and without text.
ColorNodes ==
    {Node(<<"a", ".", "V">>,
          [Attrs EXCEPT !.clickable = c, !.scrollable = sc, !.focusable = f,
                        !.longClickable = l, !.text = text,
                        !.bounds_computed = Bounds(3, 4, 50, 60)],
          <<>>) :
        c \in {"true", "false"}, sc \in {"true", "false"},
        f \in {"true", "false"}, l \in {"true", "false"},
        text \in {<<>>, <<"O", "K">>}}

\* A clickable node of valid size whose bounds start at (k, k).
Item(k, visible, children) ==
    Node(<<"a", ".", "V">>,
         [Marked("clickable") EXCEPT !.visible = visible,
                                     !.bounds_computed = Bounds(k, k, 50, 60)],
         children)

\* Trees of depth three with several included nodes: a parent with two
\* children that have children of their own, with the parent and the first
\* child visible or not, and a first child that is not included.
OrderTrees ==
    {Item(1, v1, <<Item(2, v2, <<Item(3, "true", <<>>)>>),
                   Item(4, "true", <<Item(5, "true", <<>>)>>)>>) :
        v1 \in {"true", "false"}, v2 \in {"true", "false"}}
    \cup {Item(1, "true", <<[Leaf(Bounds(0, 0, 40, 80)) EXCEPT
                                !.children = <<Item(3, "true", <<>>),
                                               Item(2, "true", <<>>)>>],
                            Item(4, "true", <<>>)>>)}

ExtractTrees ==
    SizedNodes \cup NestedNodes \cup LabelNodes \cup ColorNodes \cup OrderTrees

NextExtract ==
    \/ LoadDevices
    \/ Commit
    \/ \E tree \in ExtractTrees : HierarchyResponse(tree)

SpecExtract == Init /\ [][NextExtract]_vars

(***************************************************************************)
(* The requests and their responses across device switches.                *)
(***************************************************************************)

\* Device switches while the requests of the effects and of the clicks are
\* answered.
NextStale ==
    \/ LoadDevices
    \/ \E serial \in Serials : HandleDeviceChange(serial)
    \/ Commit
    \/ WsOpenEvent
    \/ WsCloseCleanEvent
    \/ DeviceInfoResponse(Info)
    \/ HierarchyResponse(Button)
    \/ \E pos \in {[x |-> 12, y |-> 16]} : HandleClick(pos)
    \/ LookupOutcomeEvent

SpecStale == Init /\ [][NextStale]_vars

\* The positions of the pointer in the commands that fail: a press, and a
\* release beyond the swipe threshold from it.
FailPoints == {[x |-> 0, y |-> 0], [x |-> 21, y |-> 0]}

\* The commands of one device and their outcomes, failures among them.
NextFail ==
    \/ LoadDevices
    \/ Commit
    \/ WsOpenEvent
    \/ DeviceInfoResponse(Info)
    \/ HierarchyResponse(Button)
    \/ RefreshHierarchy
    \/ FetchSettlesEvent
    \/ ToggleTapMode
    \/ HandleMouseDown([x |-> 0, y |-> 0])
    \/ \E pos \in FailPoints : HandleMouseUp(pos)
    \/ RequestOutcomeEvent
    \/ HandleClick([x |-> 0, y |-> 0])
    \/ LookupOutcomeEvent

SpecFail == Init /\ [][NextFail]_vars

\* The texts of the XPath input.
Queries == {<<>>, <<" ">>, <<"/", "/", "a">>}

\* The XPath playground and the canvas, from the start without a device.
NextQuery ==
    \/ LoadDevices
    \/ Commit
    \/ WsOpenEvent
    \/ WsMessageEvent
    \/ DeviceInfoResponse(Info)
    \/ HierarchyResponse(Button)
    \/ \E query \in Queries : ExecuteQuery(query)
    \/ XPathOutcomeEvent
    \/ HandleClick([x |-> 0, y |-> 0])
    \/ LookupOutcomeEvent

SpecQuery == Init /\ [][NextQuery]_vars

\* The session with the decoding of its frames.
NextFrame ==
    \/ Next
    \/ FrameLoaded([width |-> 120, height |-> 240])

SpecFrame == Init /\ [][NextFrame]_vars

\* Device switches while the stopStream requests settle.
NextStop ==
    \/ LoadDevices
    \/ \E serial \in Serials : HandleDeviceChange(serial)
    \/ Commit
    \/ WsOpenEvent
    \/ WsMessageEvent
    \/ WsCloseCleanEvent
    \/ WsFailEvent
    \/ FetchSettlesEvent

SpecStop == Init /\ [][NextStop]_vars

(***************************************************************************)
(* Claims.                                                                 *)
(***************************************************************************)

\* The step commits a render with a new deviceSerial (a session start).
SessionStart == deviceSerial' # deviceSerial

\* The step is an event of socket r.
SocketEvent(r) == WsOpen(r) \/ WsMessage(r) \/ WsCloseClean(r) \/ WsFail(r)

\* The number of transports of serial d that are not fully closed.
LiveCount(d) ==
    LET live == {r \in DOMAIN sockets : r.serial = d /\ r.state # "closed"}
    IN  BagCardinality([r \in live |-> sockets[r]])

\* C1: across a device switch the new transport is constructed only when
\* every transport of the previous device has delivered its close event.
C1_SwitchWaitsForClose ==
    [][(SessionStart /\ HasWs(St)') =>
          \A r \in DOMAIN sockets :
              r.serial = deviceSerial => r.state = "closed"]_vars

\* C2: for each serial at most one transport is not fully closed.
C2_OneTransportPerSerial == \A d \in Serials : LiveCount(d) <= 1

\* C3: the installed frame never comes from a transport whose session token
\* was invalidated or replaced.
C3_NoStaleFrame == imageUrlRef.kind = "blob" => ~imageUrlRef.stale

\* C4: an event of a transport whose serial is not the current token changes
\* neither the connected indicator, the loading flag, the current-transport
\* reference, the displayed frame nor the pending timers.
C4_StaleCallbackNoOp ==
    [][\A r \in DOMAIN sockets :
          (currentSerialRef # r.serial /\ SocketEvent(r)) =>
              /\ UNCHANGED <<isConnected, loading, imageUrlRef, timers>>
              /\ HasWs(St)' = HasWs(St)]_vars

\* C5: after forceDisconnect no 2s timer that was pending when it ran opens
\* a new transport: such a timer constructs no WebSocket when it fires.
C5_NoReconnectAfterForceDisconnect ==
    [][\A t \in DOMAIN timers :
          (t.fd /\ BackoffTimerFire(t)) => UNCHANGED sockets]_vars

\* C6: an unclean close of the current transport under a current token
\* schedules the 2s reconnect timer for its serial.
C6_UncleanCloseSchedulesReconnect ==
    [][\A r \in DOMAIN sockets :
          (r.cur /\ currentSerialRef = r.serial /\ WsFail(r)) =>
              \E t \in DOMAIN timers' :
                  /\ t.kind = "backoff"
                  /\ t.serial = r.serial
                  /\ timers'[t] > CountIn(timers, t)]_vars

\* C7: a 2s timer whose token was invalidated or replaced since it was
\* scheduled constructs no WebSocket when it fires, and the unclean close of
\* a transport whose token was invalidated or replaced schedules no timer.
C7_ReconnectOnlyWhileCurrent ==
    [][/\ \A t \in DOMAIN timers :
              (t.stale /\ BackoffTimerFire(t)) => UNCHANGED sockets
       /\ \A r \in DOMAIN sockets :
              (r.stale /\ WsFail(r)) => UNCHANGED timers]_vars

\* C8: the only object URL that is live is the installed one, so at most one
\* frame resource is live and the previous one is revoked no later than the
\* installation of the next.
C8_OneLiveUrl ==
    liveUrls = IF imageUrlRef.kind = "blob" THEN {imageUrlRef.id} ELSE {}

\* C8 witness: a frame has been installed over a frame that was still live.
C8_FrameReplaced == imageUrlRef.kind = "blob" /\ imageUrlRef.id = 2

\* C9: every teardown (forceDisconnect, effect cleanup) leaves no frame
\* installed and no object URL live, and no later message of a transport of
\* the torn-down session installs a frame.
C9_TeardownReleasesFrame ==
    [][/\ (selectedDevice' # selectedDevice \/ SessionStart) =>
              (imageUrlRef' = NoUrl /\ liveUrls' = {})
       /\ \A r \in DOMAIN sockets :
              (r.stale /\ WsMessage(r)) => UNCHANGED imageUrlRef]_vars

\* C10: forceDisconnect is idempotent: in every reachable state a second
\* call leaves the state of the first call, and right after forceDisconnect
\* has run another call changes nothing.
C10_ForceDisconnectIdempotent ==
    /\ ForceDisconnect(ForceDisconnect(St)) = ForceDisconnect(St)
    /\ (~Idle /\ deviceSerial # None) => ForceDisconnect(St) = St

\* C10 witness: forceDisconnect has just closed an open transport and
\* invalidated the token.
C10_AfterForceDisconnect ==
    /\ ~Idle
    /\ currentSerialRef = None
    /\ \E r \in DOMAIN sockets : r.stale /\ ~r.cur /\ r.state = "closing"

\* C11: the session start that follows a forceDisconnect constructs the
\* transport of the new serial in the same step: the commit of a device
\* switch leaves wsRef on a new CONNECTING socket of the new serial.
C11_ImmediateOpenAfterForceDisconnect ==
    [][(SessionStart /\ deviceSerial # None) =>
          \E r \in DOMAIN sockets' :
              /\ r = NewSocket(deviceSerial', "effect", FALSE)
              /\ sockets'[r] > CountIn(sockets, r)]_vars

\* C11 witness: a device switch has opened the new transport while the
\* transport that forceDisconnect closed has not delivered its close event.
C11_OpenedBeforeOldClosed ==
    /\ Idle
    /\ BagIn(NewSocket(deviceSerial, "effect", FALSE), sockets)
    /\ \E q \in DOMAIN sockets :
           q.serial # deviceSerial /\ q.stale /\ q.state \in {"closing", "aborting"}

\* C12: whenever a device is selected and its session has no transport that
\* is connecting or open, a reconnect is pending (a timer that will open a
\* transport for the selected serial), so that recovery needs no operator.
C12_RecoveryPending ==
    (/\ Idle
     /\ deviceSerial # None
     /\ ~\E r \in DOMAIN sockets :
            r.serial = deviceSerial /\ r.state \in {"connecting", "open"})
    => \E t \in DOMAIN timers :
           /\ t.serial = deviceSerial
           /\ t.kind = "backoff" \/ t.hasInfo

\* The step is a pointer-up at pos that finds interactive mode on and a
\* PendingGesture.
Resolves(pos) == tapMode /\ tapStartRef # Null /\ HandleMouseUp(pos)

\* C13: a pointer-up in interactive mode with a PendingGesture sends
\* Tap(startDevicePoint) when the squared render-space distance from the
\* start is at most 20 * 20, and Swipe(startDevicePoint, device point of the
\* pointer-up, 300) when it is more.
C13_ThresholdChoosesIntent ==
    [][\A pos \in Points :
          Resolves(pos) =>
              LET dx == pos.x - tapStartRef.canvasX
                  dy == pos.y - tapStartRef.canvasY
                  up == CanvasToDevice(deviceInfo, scale, Q(pos.x), Q(pos.y))
              IN  requests' = Put(requests,
                      IF dx * dx + dy * dy <= 400
                      THEN [kind |-> "tap", serial |-> deviceSerial,
                            x |-> tapStartRef.x, y |-> tapStartRef.y]
                      ELSE [kind |-> "swipe", serial |-> deviceSerial,
                            x1 |-> tapStartRef.x, y1 |-> tapStartRef.y,
                            x2 |-> up.x, y2 |-> up.y, duration |-> 300])]_vars

\* C13 witness: a tap and a swipe have been sent, the tap for a gesture that
\* started at a device point other than (0, 0).
C13_TapAndSwipeSent ==
    /\ \E q \in DOMAIN requests : q.kind = "tap" /\ q.x > 0
    /\ \E q \in DOMAIN requests : q.kind = "swipe"

\* C14: a pointer-up in interactive mode with a PendingGesture sends exactly
\* one request and leaves PendingGesture and the swipe preview cleared.
C14_OneIntentAndCleared ==
    [][\A pos \in Points :
          Resolves(pos) =>
              /\ BagCardinality(requests') = BagCardinality(requests) + 1
              /\ tapStartRef' = Null
              /\ swipeArrow' = Null]_vars

\* C14 witness: a tap has been sent and the recognizer is idle again.
C14_TapSentAndIdle ==
    /\ tapMode
    /\ tapStartRef = Null
    /\ swipeArrow = Null
    /\ \E q \in DOMAIN requests : q.kind = "tap"

\* C15: a toggle of interactive mode leaves no PendingGesture.
C15_ToggleClearsPending ==
    [][tapMode' # tapMode => tapStartRef' = Null]_vars

\* C16: the start of the session of another device leaves no PendingGesture.
C16_SwitchAbandonsPending ==
    [][SessionStart => tapStartRef' = Null]_vars

\* C17: while interactive mode is off no pointer-down, pointer-move or
\* pointer-up changes PendingGesture, the swipe preview or the requests.
C17_OffModeIgnoresPointer ==
    [][\A pos \in Points :
          (/\ ~tapMode
           /\ \/ HandleMouseDown(pos)
              \/ HandleMouseMove(pos)
              \/ HandleMouseUp(pos))
          => UNCHANGED <<tapStartRef, swipeArrow, requests>>]_vars

\* C17 witness: the Stage is shown with interactive mode off while a gesture
\* captured earlier is still stored.
C17_OffWithStoredGesture == StageShown /\ ~tapMode /\ tapStartRef # Null

\* C18: pointer-leave clears the swipe preview and leaves PendingGesture as
\* it is, and a pointer-up that finds no preview still sends a request from
\* the captured start point.
C18_LeaveKeepsPending ==
    [][/\ HandleMouseLeave =>
              (swipeArrow' = Null /\ UNCHANGED <<tapStartRef, requests>>)
       /\ \A pos \in Points :
              (swipeArrow = Null /\ Resolves(pos)) =>
                  \E q \in DOMAIN requests' :
                      /\ requests'[q] > CountIn(requests, q)
                      /\ IF q.kind = "tap"
                         THEN q.x = tapStartRef.x /\ q.y = tapStartRef.y
                         ELSE q.x1 = tapStartRef.x /\ q.y1 = tapStartRef.y]_vars

\* C18 witness: a swipe has been sent although no preview was shown when the
\* pointer came up (the state is the one pointer-leave left).
C18_SwipeWithoutPreview ==
    /\ tapStartRef = Null
    /\ BagCardinality(requests) = 1
    /\ \E q \in DOMAIN requests : q.kind = "swipe" /\ q.x1 > 0

\* C19: the outcome of a request changes neither PendingGesture, the swipe
\* preview nor the mode.
C19_OutcomeLeavesRecognizer ==
    [][RequestOutcomeEvent => UNCHANGED <<tapStartRef, swipeArrow, tapMode>>]_vars

\* C19 witness: a second gesture was started and resolved, and a third one
\* started, while the first request was still in flight.
C19_GestureWhileInFlight ==
    BagCardinality(requests) = 2 /\ tapStartRef # Null

\* C20: fitX and fitY are within [0.1, 2.0] in every reachable state.
C20_FitWithinClamp ==
    /\ Leq(Rat(1, 10), hierarchyFit.x) /\ Leq(hierarchyFit.x, Rat(2, 1))
    /\ Leq(Rat(1, 10), hierarchyFit.y) /\ Leq(hierarchyFit.y, Rat(2, 1))

\* C20 witness: both bounds of the clamp are in use, the lower one for a
\* hierarchy of very large width.
C20_ClampedBothWays ==
    /\ hierarchy # Null
    /\ deviceInfo # Null
    /\ hierarchyFit.x = Rat(1, 10)
    /\ hierarchyFit.y = Rat(2, 1)

\* C21: while the extent of the hierarchy is within 1.2 times the device
\* size in both axes, fitX = fitY = 1 exactly, whatever the frame size is.
C21_FitOneWithinMargin ==
    (/\ hierarchy # Null
     /\ deviceInfo # Null
     /\ 5 * EstimateHierarchyBounds(hierarchy).maxRight <= 6 * deviceInfo.width
     /\ 5 * EstimateHierarchyBounds(hierarchy).maxBottom
            <= 6 * deviceInfo.height)
    => hierarchyFit = [x |-> One, y |-> One]

\* C21 witness: an extent of exactly 1.2 times the device size, with a
\* decoded frame three times the device size.
C21_AtMarginWithFrame ==
    /\ hierarchy = Tree(<<Bounds(0, 0, 48, 96)>>)
    /\ deviceInfo = Info
    /\ frameSize.width = 120
    /\ hierarchyFit = [x |-> One, y |-> One]

\* a / b, Infinity when b is 0
Ratio(a, b) == IF b = 0 THEN [n |-> 1, d |-> 0] ELSE Rat(a, b)

\* v brought into [0.1, 2.0]
Within(v) ==
    IF Leq(v, Rat(1, 10)) THEN Rat(1, 10)
    ELSE IF Leq(Rat(2, 1), v) THEN Rat(2, 1) ELSE v

\* The fit factors C22 states for an oversized hierarchy of extent e.
OversizedFit(e) ==
    IF frameSize.width > 0 /\ frameSize.height > 0
    THEN [x |-> Within(Ratio(deviceInfo.width, frameSize.width)),
          y |-> Within(Ratio(deviceInfo.height, frameSize.height))]
    ELSE [x |-> Within(Ratio(deviceInfo.width, e.maxRight)),
          y |-> Within(Ratio(deviceInfo.height, e.maxBottom))]

\* C22 as stated: when the extent exceeds 1.2 times the device size in at
\* least one axis, the fit factors are device/frame per axis if a frame is
\* decoded, otherwise device/extent per axis, clamped to [0.1, 2.0].
C22_OversizedFit ==
    (/\ hierarchy # Null
     /\ deviceInfo # Null
     /\ \/ 5 * EstimateHierarchyBounds(hierarchy).maxRight > 6 * deviceInfo.width
        \/ 5 * EstimateHierarchyBounds(hierarchy).maxBottom
               > 6 * deviceInfo.height)
    => hierarchyFit = OversizedFit(EstimateHierarchyBounds(hierarchy))

\* C22 amended: the same, for an extent that is positive in both axes.
C22_OversizedFitOfPositiveExtent ==
    (/\ hierarchy # Null
     /\ deviceInfo # Null
     /\ EstimateHierarchyBounds(hierarchy).maxRight > 0
     /\ EstimateHierarchyBounds(hierarchy).maxBottom > 0
     /\ \/ 5 * EstimateHierarchyBounds(hierarchy).maxRight > 6 * deviceInfo.width
        \/ 5 * EstimateHierarchyBounds(hierarchy).maxBottom
               > 6 * deviceInfo.height)
    => hierarchyFit = OversizedFit(EstimateHierarchyBounds(hierarchy))

\* C22 witness: device 375x812, no frame yet, maxRight 1170: fitX is
\* 375/1170; and the same hierarchy once a frame has been decoded.
C22_PointsDeviceNoFrame ==
    /\ deviceInfo = [width |-> 375, height |-> 812]
    /\ frameSize.width = 0
    /\ hierarchy = Tree(<<Bounds(0, 0, 1170, 2532)>>)
    /\ hierarchyFit = [x |-> Rat(375, 1170), y |-> Rat(812, 2532)]

\* C23: the scale never exceeds 1.2, and for a device of positive size on a
\* render surface of positive size it is the least of surface width over
\* device width, surface height over device height and 1.2, and is > 0.
C23_ScaleIsCappedMin ==
    /\ Leq(scale, Rat(6, 5))
    /\ (/\ deviceInfo # Null
        /\ deviceInfo.width > 0 /\ deviceInfo.height > 0
        /\ AvailableWidth(viewport) > 0 /\ AvailableHeight(viewport) > 0)
       => LET rx == Rat(AvailableWidth(viewport), deviceInfo.width)
              ry == Rat(AvailableHeight(viewport), deviceInfo.height)
          IN  /\ scale \in {rx, ry, Rat(6, 5)}
              /\ Leq(scale, rx) /\ Leq(scale, ry)
              /\ scale.n > 0 /\ scale.d > 0

\* C23 witness: device 1080x2400 on a surface 360x800 after a resize, and
\* a small device that the cap limits.
C23_ThirdAfterResize ==
    /\ deviceInfo = [width |-> 1080, height |-> 2400]
    /\ AvailableWidth(viewport) = 360 /\ AvailableHeight(viewport) = 800
    /\ scale = Rat(1, 3)

\* C24: a select-mode click looks up round(pt x frame.size / canvas size)
\* when a frame of the current session has been decoded, and
\* canvasToDevice(pt) until then, also in a session started by a switch.
C24_HitTestByFrameOfSession ==
    [][\A pos \in Points :
          (HandleClick(pos) /\ ~tapMode /\ deviceInfo # Null)
          => requests' = Put(requests, Lookup(deviceSerial,
                 IF frameSize.width > 0 /\ frameSize.serial = deviceSerial
                 THEN FramePixel(pos, frameSize, CanvasSize(deviceInfo, scale))
                 ELSE CanvasToDevice(deviceInfo, scale, Q(pos.x), Q(pos.y))))]_vars

\* C25: once a change of the device info, the frame size or the hierarchy
\* has been processed, the stored fit factors are those recalcHierarchyFit
\* gives for the current three, and while there is a device info the scale
\* is the one calculateScale gives for the current viewport, also after a
\* resize.
C25_FactorsFollowInputs ==
    /\ hierarchyFit = RecalcHierarchyFit(hierarchy, deviceInfo, frameSize)
    /\ deviceInfo # Null
       => scale = CalculateScale(viewport, deviceInfo.width, deviceInfo.height)

\* C25 witness: after a resize, with a fit taken from a decoded frame.
C25_ResizedWithFrameFit ==
    /\ viewport = [clientWidth |-> 100, innerHeight |-> 253]
    /\ deviceInfo = Info
    /\ scale = Rat(3, 5)
    /\ frameSize.width = 120
    /\ hierarchy # Null
    /\ hierarchyFit = [x |-> Rat(1, 3), y |-> Rat(1, 3)]

\* Node n is not marked not-visible, has bounds with 10 < w < 2000 and
\* 10 < h < 3000, and is interactive or has text.
Qualifies(n) ==
    /\ n.attributes.visible # "false"
    /\ n.attributes.bounds_computed # Null
    /\ 10 < n.attributes.bounds_computed.w
    /\ n.attributes.bounds_computed.w < 2000
    /\ 10 < n.attributes.bounds_computed.h
    /\ n.attributes.bounds_computed.h < 3000
    /\ \/ "true" \in {n.attributes.clickable, n.attributes.scrollable,
                      n.attributes.focusable, n.attributes.longClickable}
       \/ n.attributes.text # <<>>

\* C28: the overlays are those of the nodes that qualify, one for each:
\* the bounds of the overlays are the bounds of the qualifying nodes, in
\* the order of the walk.
C28_IncludedIffQualifies ==
    hierarchy # Null
    => LET q == SelectSeq(Walk(hierarchy), Qualifies)
       IN  /\ Len(elementBounds) = Len(q)
           /\ \A k \in DOMAIN q :
                  elementBounds[k].bounds = q[k].attributes.bounds_computed

\* C28 witness: a visible node of 1999 x 11 that only has text is included.
C28_TextNodeJustInside ==
    /\ hierarchy # Null
    /\ Len(Walk(hierarchy)) = 1
    /\ hierarchy.attributes.text # <<>>
    /\ hierarchy.attributes.clickable = "false"
    /\ Len(elementBounds) = 1
    /\ elementBounds[1].bounds = Bounds(0, 0, 1999, 11)

\* C29: no overlay is that of a node marked not-visible, every visible
\* qualifying node has its overlay also below nodes marked not-visible, and
\* a not-visible root whose only child is a visible qualifying leaf yields
\* exactly one overlay, the child's.
C29_InvisibleSkippedChildrenVisited ==
    hierarchy # Null
    => LET w == Walk(hierarchy)
       IN  /\ \A k \in DOMAIN elementBounds : \E i \in DOMAIN w :
                  /\ w[i].attributes.visible # "false"
                  /\ w[i].attributes.bounds_computed = elementBounds[k].bounds
           /\ \A i \in DOMAIN w :
                  Qualifies(w[i])
                  => \E k \in DOMAIN elementBounds :
                        elementBounds[k].bounds
                            = w[i].attributes.bounds_computed
           /\ (/\ hierarchy.attributes.visible = "false"
               /\ Len(w) = 2
               /\ Qualifies(w[2]))
              => /\ Len(elementBounds) = 1
                 /\ elementBounds[1].bounds = w[2].attributes.bounds_computed

\* C29 witness: a not-visible clickable root of valid size with a Button
\* below it: one overlay, the Button's.
C29_HiddenParentOfButton ==
    /\ hierarchy # Null
    /\ hierarchy.attributes.visible = "false"
    /\ hierarchy.attributes.clickable = "true"
    /\ ReasonableSize(hierarchy.attributes.bounds_computed)
    /\ hierarchy.children = <<Button>>
    /\ Len(elementBounds) = 1
    /\ elementBounds[1].bounds = Bounds(1, 2, 50, 60)

\* The first non-empty of: the text (its first 17 characters and "..." when
\* longer than 20), the last segment of the resource-id, the
\* content-description, the last segment of the tag.
FirstNonEmptyLabel(n) ==
    LET text == IF Len(n.attributes.text) > 20
                THEN SubSeq(n.attributes.text, 1, 17) \o <<".", ".", ".">>
                ELSE n.attributes.text
        rid == LastSegment(n.attributes.resourceId, "/")
    IN  IF text # <<>> THEN text
        ELSE IF rid # <<>> THEN rid
        ELSE IF n.attributes.contentDesc # <<>> THEN n.attributes.contentDesc
        ELSE LastSegment(n.tag, ".")

\* C30: the label of an overlay is the first non-empty candidate in the
\* order text (truncated beyond 20 characters), last segment of the
\* resource-id, content-description, last segment of the tag.
C30_LabelFirstNonEmpty ==
    (hierarchy # Null /\ Len(Walk(hierarchy)) = 1 /\ Len(elementBounds) = 1)
    => elementBounds[1].label = FirstNonEmptyLabel(hierarchy)

\* C26: an overlay is drawn at bounds.x x fitX x scale, bounds.y x fitY x
\* scale with size bounds.w x fitX x scale, bounds.h x fitY x scale; for
\* device 1080x2400, frame 1080x2400 and surface 360x800 the scale is 1/3,
\* the fit is 1 and bounds (100, 200, 200, 80) are drawn at (100/3, 200/3)
\* with size (200/3, 80/3).
C26_OverlayIsBoundsTimesFitTimesScale ==
    /\ \A k \in DOMAIN ElementRects :
          LET b == elementBounds[k].bounds
              fx == hierarchyFit.x
              fy == hierarchyFit.y
          IN  /\ ElementRects[k].x = Rat(b.x * fx.n * scale.n, fx.d * scale.d)
              /\ ElementRects[k].y = Rat(b.y * fy.n * scale.n, fy.d * scale.d)
              /\ ElementRects[k].width
                     = Rat(b.w * fx.n * scale.n, fx.d * scale.d)
              /\ ElementRects[k].height
                     = Rat(b.h * fy.n * scale.n, fy.d * scale.d)
    /\ (/\ deviceInfo = [width |-> 1080, height |-> 2400]
        /\ frameSize.width = 1080 /\ frameSize.height = 2400
        /\ AvailableWidth(viewport) = 360 /\ AvailableHeight(viewport) = 800
        /\ hierarchy # Null
        /\ Len(elementBounds) = 1
        /\ elementBounds[1].bounds = Bounds(100, 200, 200, 80))
       => /\ scale = Rat(1, 3)
          /\ hierarchyFit = [x |-> One, y |-> One]
          /\ ElementRects =
                 <<[x |-> Rat(100, 3), y |-> Rat(200, 3),
                    width |-> Rat(200, 3), height |-> Rat(80, 3)]>>

\* C26 witness: the example.
C26_ButtonAtThird ==
    /\ deviceInfo = [width |-> 1080, height |-> 2400]
    /\ frameSize.width = 1080 /\ frameSize.height = 2400
    /\ AvailableWidth(viewport) = 360 /\ AvailableHeight(viewport) = 800
    /\ ElementRects =
           <<[x |-> Rat(100, 3), y |-> Rat(200, 3),
              width |-> Rat(200, 3), height |-> Rat(80, 3)]>>

\* Device points of the round trip.
DevicePoints ==
    {[x |-> 0, y |-> 0], [x |-> 1, y |-> 2], [x |-> 7, y |-> 13],
     [x |-> 100, y |-> 200], [x |-> 1079, y |-> 2399], [x |-> 0 - 3, y |-> 5]}

\* C27: with a device info and fit = 1, canvasToDevice(deviceToCanvas(p))
\* is p for every integer device point p and every positive scale.
C27_RoundTrip ==
    (/\ deviceInfo # Null
     /\ hierarchyFit = [x |-> One, y |-> One]
     /\ scale.n > 0)
    => \A p \in DevicePoints :
          CanvasToDevice(deviceInfo, scale,
                         DeviceToCanvas(hierarchyFit, scale, p.x, p.y).x,
                         DeviceToCanvas(hierarchyFit, scale, p.x, p.y).y) = p

\* C27 witness: a scale that is not the inverse of an integer, with a
\* hierarchy loaded whose fit is 1.
C27_ScaleThreeFifths ==
    /\ deviceInfo = Info
    /\ hierarchy # Null
    /\ hierarchyFit = [x |-> One, y |-> One]
    /\ scale = Rat(3, 5)

Green == "#52c41a"
Orange == "#faad14"
Cyan == "#13c2c2"
Blue == "#1890ff"

\* The color of the first entry of the priority order clickable (green),
\* scrollable (orange), long-clickable (cyan) that node n matches, blue when
\* it matches none.
PriorityColor(n) ==
    LET order == <<[on |-> n.attributes.clickable, color |-> Green],
                   [on |-> n.attributes.scrollable, color |-> Orange],
                   [on |-> n.attributes.longClickable, color |-> Cyan]>>
        hits == {i \in DOMAIN order : order[i].on = "true"}
    IN  IF hits = {} THEN Blue
        ELSE order[CHOOSE i \in hits : \A j \in hits : i <= j].color

\* C31: the color of the overlay of every included node is the first match
\* of clickable (green), scrollable (orange), long-clickable (cyan), else
\* blue; a node both clickable and scrollable is green, a node that is only
\* focusable or only has text is blue.
C31_ColorByPriority ==
    hierarchy # Null
    => LET q == SelectSeq(Walk(hierarchy), Qualifies)
       IN  /\ Len(elementBounds) = Len(q)
           /\ \A k \in DOMAIN q :
                 LET a == q[k].attributes
                     c == elementBounds[k].color
                 IN  /\ c = PriorityColor(q[k])
                     /\ (a.clickable = "true" /\ a.scrollable = "true")
                        => c = Green
                     /\ (/\ a.clickable # "true" /\ a.scrollable # "true"
                         /\ a.longClickable # "true")
                        => c = Blue

\* C31 witness: a node that is clickable, scrollable and long-clickable has
\* a green overlay.
C31_ClickableScrollableIsGreen ==
    /\ hierarchy # Null
    /\ hierarchy.attributes.clickable = "true"
    /\ hierarchy.attributes.scrollable = "true"
    /\ hierarchy.attributes.longClickable = "true"
    /\ Len(elementBounds) = 1
    /\ elementBounds[1].color = Green

\* The paths of the nodes of tree n: the child indices from the root down.
RECURSIVE Paths(_)
Paths(n) ==
    {<<>>} \cup UNION {{<<i>> \o p : p \in Paths(n.children[i])} :
                          i \in DOMAIN n.children}

\* The node of tree n at path p.
RECURSIVE At(_, _)
At(n, p) == IF p = <<>> THEN n ELSE At(n.children[Head(p)], Tail(p))

\* Path p comes before path q in pre-order: p is an ancestor of q, or p
\* branches off at an earlier child than q.
Before(p, q) ==
    \/ Len(p) < Len(q) /\ SubSeq(q, 1, Len(p)) = p
    \/ \E i \in 1..Len(p) :
          /\ i <= Len(q)
          /\ SubSeq(p, 1, i - 1) = SubSeq(q, 1, i - 1)
          /\ p[i] < q[i]

\* C32: the overlays are those of the qualifying nodes in pre-order, a
\* parent's before any descendant's and siblings in child order: the
\* overlay of a qualifying node is at the position that counts the
\* qualifying nodes before it.  The list is determined by the tree alone,
\* so two extractions of the same tree give the same list.
C32_PreOrder ==
    hierarchy # Null
    => LET qual == {p \in Paths(hierarchy) : Qualifies(At(hierarchy, p))}
       IN  /\ Len(elementBounds) = Cardinality(qual)
           /\ \A p \in qual :
                 elementBounds[1 + Cardinality({q \in qual : Before(q, p)})]
                     .bounds = At(hierarchy, p).attributes.bounds_computed

\* C32 witness: a parent, its first child, that child's child, the second
\* child and its child give five overlays in this order.
C32_FiveInOrder ==
    /\ hierarchy # Null
    /\ Len(elementBounds) = 5
    /\ \A k \in 1..5 : elementBounds[k].bounds = Bounds(k, k, 50, 60)

\* C37: whenever isConnected is true, wsRef.current is a transport of the
\* current session identity and it is open.
C37_ConnectedMeansCurrentOpen ==
    isConnected
    => /\ HasWs(St)
       /\ Ws(St).state = "open"
       /\ Ws(St).serial = currentSerialRef

\* The requests a step sends: those of which requests' holds more.
Sent == {q \in DOMAIN requests' : requests'[q] > CountIn(requests, q)}

\* C39: a handler run sends at most one request; in tap mode it is a Tap
\* or a Swipe and never a lookup, in select mode it is a lookup and never
\* a Tap or a Swipe.
C39_OneKindOfRequest ==
    [][/\ BagCardinality(requests') <= BagCardinality(requests) + 1
       /\ tapMode => \A q \in Sent : q.kind \in {"tap", "swipe"}
       /\ ~tapMode => \A q \in Sent : q.kind = "lookup"]_vars

\* C39 witness: a Tap sent in tap mode and a lookup sent in select mode are
\* in flight.
C39_TapAndLookupSent ==
    /\ \E q \in DOMAIN requests : q.kind = "tap"
    /\ \E q \in DOMAIN requests : q.kind = "lookup"

\* The stopStream requests in flight.
Stops(F) == {f \in F : f.kind = "stop"}

Settled(kind) == {f \in fetches \ fetches' : f.kind = kind}

\* The lookups that settle in a step.
SettledLookups ==
    {q \in DOMAIN requests :
        q.kind = "lookup" /\ CountIn(requests', q) < requests[q]}

\* C33: a response to a request that was sent for another device than the
\* current one changes nothing: a device-info response leaves the device
\* info and the scale, a hierarchy response the hierarchy and the element
\* bounds, a lookup response the overlays and the selected element.
C33_StaleResponseChangesNothing ==
    [][/\ \A f \in Settled("info") :
              f.serial # deviceSerial => UNCHANGED <<deviceInfo, scale>>
       /\ \A f \in Settled("hierarchy") :
              f.serial # deviceSerial
              => UNCHANGED <<hierarchy, elementBounds, appHierarchy>>
       /\ \A q \in SettledLookups :
              q.serial # selectedDevice
              => UNCHANGED <<overlays, selectedElement>>]_vars

\* C38: the hierarchy of the canvas and the element bounds extracted from it
\* belong to the current device: while the hierarchy loaded last was
\* requested for another serial than the current one, there is no hierarchy
\* and the element bounds are empty.
C38_OverlaysOfCurrentDevice ==
    hierarchyOf # deviceSerial => hierarchy = Null /\ elementBounds = <<>>

\* A command fails: the promise of a tap or a swipe settles (the handlers of
\* both outcomes set the same state), a lookup comes back with an exception
\* or without an element, or a dumpHierarchy request fails.
CommandFails ==
    \/ RequestOutcomeEvent
    \/ \E q \in DOMAIN requests :
          \E result \in {[success |-> FALSE], [throws |-> TRUE]} :
              LookupOutcome(q, result)
    \/ \E f \in fetches : f.kind = "hierarchy" /\ FetchSettles(f)

\* C35: the step in which a tap, a swipe, a hierarchy fetch or an element
\* lookup fails changes neither the transport state (the sockets, the
\* timers, isConnected, loading, the frame URL), nor the session identity
\* currentSerialRef, nor the hierarchy, nor the extracted element bounds.
C35_FailureLeavesSession ==
    [][CommandFails
       => UNCHANGED <<sessionVars, hierarchy, hierarchyFit, hierarchyOf,
                      elementBounds>>]_vars

\* A hierarchy is shown, the stream is open, and a refresh of the hierarchy,
\* a swipe and a lookup are in flight.
C35_CommandsInFlight ==
    /\ hierarchy # Null
    /\ elementBounds # <<>>
    /\ isConnected
    /\ Fetch("hierarchy", deviceSerial) \in fetches
    /\ \E q \in DOMAIN requests : q.kind = "swipe"
    /\ \E q \in DOMAIN requests : q.kind = "lookup"

====
